---------------------------- MODULE Spec2Model ----------------------------
(***************************************************************************)
(* Model of the Avito event pipeline of async-message-broker:              *)
(*   - AvitoWebhookHandler (app/modules/avito/webhook.py): the ingestor    *)
(*     that appends raw webhook events to stream:avito:raw_webhooks;       *)
(*   - process_outgoing_messages and process_chat_actions                  *)
(*     (app/modules/avito/worker.py): the two consumer-group loops.        *)
(* Redis streams, the relational store, the chat API and the renderer are  *)
(* modelled by their effect at the call sites of these files.              *)
(***************************************************************************)
EXTENDS Integers, Sequences, FiniteSets, TLC

VARIABLES
    avito_webhook_secret, \* env.avito_webhook_secret ("" when not configured)
    raw_webhooks,         \* stream:avito:raw_webhooks, a sequence of field maps
    requests,             \* history: the webhook calls handled so far, with their responses
    verifications,        \* history: the calls of verify_signature, with their results
    streams,              \* the two intent streams: name -> sequence of field maps (id = index)
    groups,               \* the consumer group of each stream: exists, last_delivered, pending
    view_cache,           \* the cached projections: view key -> missing, or value and ttl
    message_logs,         \* the message_logs table, in commit order
    pc,                   \* each worker instance's position in its loop
    group_reply,          \* each worker's reply from xgroup_create ("": not called yet)
    message_id,           \* each worker's local message_id (0: not bound)
    account,              \* each worker's local account
    model_json,           \* each chat-action worker's local model_json
    model,                \* each chat-action worker's local model
    api_calls,            \* history: the calls made to the chat API, in order
    rehydrations,         \* history: the calls made to rehydrate_view_model
    notifications,        \* history: the calls made to renderer.update_all_subscribers
    cache_ops,            \* history: the redis GETs and SETs made on the view keys
    deliveries,           \* history: stream -> id -> how often a group read returned the entry
    outcome               \* history: stream -> id -> how the processing of the entry ended

hookVars == <<avito_webhook_secret, raw_webhooks, requests, verifications>>

workerVars == <<streams, groups, view_cache, message_logs, pc, group_reply, message_id, account,
                model_json, model, api_calls, rehydrations, notifications,
                cache_ops, deliveries, outcome>>

vars == <<hookVars, workerVars>>

(***************************************************************************)
(* Bounds of the model.                                                    *)
(***************************************************************************)
MaxRequests == 2
MaxEntries == 2

(***************************************************************************)
(* JSON values as json.loads returns them, tagged by their Python type.    *)
(***************************************************************************)
JNone == [k |-> "None"]
JStr(s) == [k |-> "str", v |-> s]
JInt(n) == [k |-> "int", v |-> n]
JList == [k |-> "list"]
JDict(m) == [k |-> "dict", m |-> m]
JEmptyDict == [k |-> "dict", m |-> <<>>]

\* What leaves a Python call: a value, or an exception raised.
Ok(v) == [raised |-> "", val |-> v]
Raise(exc) == [raised |-> exc, val |-> JNone]

(***************************************************************************)
(* The request bodies the model sends, as raw body text.                   *)
(***************************************************************************)
BodyCatalog ==
    << "{bad",
       "{\"payload\":{\"type\":\"message\",\"value\":{\"id\":\"42\"}}}",
       "{\"payload\":{\"type\":\"message\",\"value\":{\"id\":7}}}",
       "{\"payload\":{\"type\":\"message\",\"value\":{\"id\":null}}}",
       "{\"payload\":{\"type\":\"message\",\"value\":{}}}",
       "{\"payload\":{\"type\":\"message\"}}",
       "{\"payload\":{\"type\":\"message\",\"value\":null}}",
       "{\"payload\":{\"type\":\"read\",\"value\":{\"id\":\"42\"}}}",
       "{}",
       "{\"payload\":null}",
       "[]",
       "<0xFF>" >>

Bodies == { BodyCatalog[i] : i \in DOMAIN BodyCatalog }

BodyIndex(body) == CHOOSE i \in DOMAIN BodyCatalog : BodyCatalog[i] = body

MessagePayload(value) ==
    JDict([payload |-> JDict([type |-> JStr("message"), value |-> value])])

\* json.loads(payload_bytes) on the catalogued bodies ("<0xFF>" stands for the
\* single byte 0xFF, which is not UTF-8).
json_loads(body) ==
    CASE body = BodyCatalog[1] -> Raise("JSONDecodeError")
      [] body = BodyCatalog[2] -> Ok(MessagePayload(JDict([id |-> JStr("42")])))
      [] body = BodyCatalog[3] -> Ok(MessagePayload(JDict([id |-> JInt(7)])))
      [] body = BodyCatalog[4] -> Ok(MessagePayload(JDict([id |-> JNone])))
      [] body = BodyCatalog[5] -> Ok(MessagePayload(JEmptyDict))
      [] body = BodyCatalog[6] -> Ok(JDict([payload |-> JDict([type |-> JStr("message")])]))
      [] body = BodyCatalog[7] -> Ok(MessagePayload(JNone))
      [] body = BodyCatalog[8] ->
            Ok(JDict([payload |-> JDict([type |-> JStr("read"),
                                         value |-> JDict([id |-> JStr("42")])])]))
      [] body = BodyCatalog[9] -> Ok(JEmptyDict)
      [] body = BodyCatalog[10] -> Ok(JDict([payload |-> JNone]))
      [] body = BodyCatalog[11] -> Ok(JList)
      [] OTHER -> Raise("UnicodeDecodeError")

\* obj.get(key, default): only a dict has .get; on anything else Python raises
\* AttributeError.
py_get(obj, key, default) ==
    IF obj.k # "dict" THEN Raise("AttributeError")
    ELSE IF key \in DOMAIN obj.m THEN Ok(obj.m[key]) ELSE Ok(default)

\* r.get(key, default) on the result of an earlier call, an exception passing through.
then_get(r, key, default) ==
    IF r.raised # "" THEN r ELSE py_get(r.val, key, default)

DecDigit(d) ==
    CASE d = 0 -> "0" [] d = 1 -> "1" [] d = 2 -> "2" [] d = 3 -> "3" [] d = 4 -> "4"
      [] d = 5 -> "5" [] d = 6 -> "6" [] d = 7 -> "7" [] d = 8 -> "8" [] OTHER -> "9"

RECURSIVE DecStr(_)
DecStr(n) == IF n < 10 THEN DecDigit(n) ELSE DecStr(n \div 10) \o DecDigit(n % 10)

\* str(event_id)
py_str(v) ==
    CASE v.k = "str" -> v.v
      [] v.k = "int" -> DecStr(v.v)
      [] v.k = "None" -> "None"
      [] v.k = "list" -> "[]"
      [] OTHER -> "{...}"

(***************************************************************************)
(* Signatures.  A header is absent (None) or carries a string of hex       *)
(* digits; the digest is a short keyed checksum standing for the           *)
(* HMAC-SHA256 hexdigest.                                                  *)
(***************************************************************************)
Secret == "s3cr3t"

NoHeader == [present |-> FALSE, hex |-> <<>>]
Header(hex) == [present |-> TRUE, hex |-> hex]

HexDigit(d) ==
    CASE d < 10 -> DecDigit(d)
      [] d = 10 -> "a" [] d = 11 -> "b" [] d = 12 -> "c" [] d = 13 -> "d"
      [] d = 14 -> "e" [] OTHER -> "f"

KeyCode(secret) == IF secret = Secret THEN 173 ELSE 54

\* hmac.new(secret, msg=payload, digestmod=hashlib.sha256).hexdigest()
hexdigest(secret, payload) ==
    LET h == (KeyCode(secret) * 31 + BodyIndex(payload) * 57) % 256
    IN  <<HexDigit(h \div 16), HexDigit(h % 16)>>

\* A signature that differs from hex in its first character only.
Tampered(hex) == [hex EXCEPT ![1] = IF hex[1] = "0" THEN "1" ELSE "0"]

\* A signature that differs from hex in its last character only.
TamperedLast(hex) == [hex EXCEPT ![Len(hex)] = IF hex[Len(hex)] = "0" THEN "1" ELSE "0"]

\* A signature whose first character is not ASCII ("<0xE9>" stands for the one
\* character U+00E9, which a header byte 0xE9 decodes to).
NonAscii(hex) == [hex EXCEPT ![1] = "<0xE9>"]

IsAscii(hex) == \A i \in DOMAIN hex : hex[i] # "<0xE9>"

\* What leaves a call that returns a bool.
Returns(b) == [raised |-> "", val |-> b]
Raises(exc) == [raised |-> exc, val |-> FALSE]

\* hmac.compare_digest(a, b) on two str: TypeError unless both are ASCII.
compare_digest(a, b) ==
    IF IsAscii(a) /\ IsAscii(b) THEN Returns(a = b) ELSE Raises("TypeError")

\* AvitoWebhookHandler.verify_signature, secret being env.avito_webhook_secret.
verify_signature(secret, payload, signature) ==
    IF secret = "" THEN Returns(TRUE)
    ELSE IF ~signature.present \/ signature.hex = <<>> THEN Returns(FALSE)
    ELSE compare_digest(hexdigest(secret, payload), signature.hex)

\* The X-Signature headers a request with this body may carry.
SignaturesFor(body) ==
    { NoHeader, Header(<<>>), Header(hexdigest(Secret, body)),
      Header(Tampered(hexdigest(Secret, body))),
      Header(TamperedLast(hexdigest(Secret, body))),
      Header(NonAscii(hexdigest(Secret, body))) }

(***************************************************************************)
(* The ingestor.                                                           *)
(***************************************************************************)
RawStreamMaxLen == 10000

\* redis.xadd(name, fields, maxlen=N): append, then trim to the newest N entries.
xadd(stream, fields, maxlen) ==
    LET s == Append(stream, fields)
    IN  IF Len(s) > maxlen THEN SubSeq(s, Len(s) - maxlen + 1, Len(s)) ELSE s

Response(content, status_code) == [content |-> content, status_code |-> status_code]

\* What FastAPI answers when the handler raises.
ServerError == Response("Internal Server Error", 500)

\* AvitoWebhookHandler.handle_request: the response and the stream after the call;
\* redis_ok says whether the xadd, if the call comes to it, succeeds.
handle_request(body, x_signature, stream, redis_ok) ==
    LET payload == json_loads(body)
        event_type == then_get(then_get(payload, "payload", JEmptyDict), "type", JNone)
        event_id == then_get(then_get(then_get(payload, "payload", JEmptyDict),
                                      "value", JEmptyDict), "id", JNone)
    IN  IF payload.raised = "JSONDecodeError"
          THEN [response |-> Response("Bad JSON", 400), stream |-> stream]
        ELSE IF payload.raised # "" \/ event_type.raised # ""
          THEN [response |-> ServerError, stream |-> stream]
        ELSE IF event_type.val # JStr("message")
          THEN [response |-> Response("Ignored event type", 200), stream |-> stream]
        ELSE IF event_id.raised # ""
          THEN [response |-> ServerError, stream |-> stream]
        ELSE IF ~redis_ok
          THEN [response |-> ServerError, stream |-> stream]
        ELSE [response |-> Response("ok", 200),
              stream |-> xadd(stream,
                              [event_id |-> py_str(event_id.val), raw_body |-> body],
                              RawStreamMaxLen)]

\* One webhook call served by the ingestor.
HandleRequest ==
    /\ Len(requests) < MaxRequests
    /\ \E body \in Bodies :
         \E x_signature \in SignaturesFor(body) :
           \E redis_ok \in BOOLEAN :
             LET out == handle_request(body, x_signature, raw_webhooks, redis_ok)
             IN  /\ raw_webhooks' = out.stream
                 /\ requests' = Append(requests,
                        [body |-> body, x_signature |-> x_signature,
                         redis_ok |-> redis_ok, response |-> out.response,
                         before |-> raw_webhooks, after |-> out.stream])
    /\ UNCHANGED <<avito_webhook_secret, verifications, workerVars>>

\* One call of verify_signature (no request path of this handler makes it).
VerifySignature ==
    /\ Len(verifications) < MaxRequests
    /\ \E body \in Bodies :
         \E signature \in SignaturesFor(body) :
           verifications' = Append(verifications,
               [payload |-> body, signature |-> signature,
                result |-> verify_signature(avito_webhook_secret, body, signature)])
    /\ UNCHANGED <<avito_webhook_secret, raw_webhooks, requests, workerVars>>

(***************************************************************************)
(* The stores the workers use.                                             *)
(***************************************************************************)
OutStream == "avito:outgoing:messages"
ActStream == "avito:chat:actions"
StreamNames == {OutStream, ActStream}

\* The worker instances: the design lets several processes run the same loop, all
\* under the loop's fixed group and consumer name.
OutWorkers == {"outgoing_consumer_1/p1", "outgoing_consumer_1/p2"}
ActWorkers == {"action_consumer_1/p1", "action_consumer_1/p2"}
Workers == OutWorkers \cup ActWorkers

StreamOf(w) == IF w \in OutWorkers THEN OutStream ELSE ActStream

\* The OutgoingIntents the producers append.
OutIntents ==
    { [account_id |-> "1", chat_id |-> "c1", text |-> "hi"],
      [account_id |-> "1", chat_id |-> "c1", action_type |-> "image_reply", image_id |-> "img1"],
      [account_id |-> "1", chat_id |-> "c1", action_type |-> "image_reply", text |-> "hi"],
      [account_id |-> "1", chat_id |-> "c1", action_type |-> "auto_reply", text |-> "hi",
       rule_name |-> "rule1", template_name |-> "tpl1"],
      [account_id |-> "1", chat_id |-> "c1", action_type |-> "template_reply", text |-> "hi",
       rule_name |-> "rule1", template_name |-> "tpl1"],
      [account_id |-> "2", chat_id |-> "c1", text |-> "hi"],
      [account_id |-> "3", chat_id |-> "c1", text |-> "hi"],
      [account_id |-> "abc", chat_id |-> "c1", text |-> "hi"],
      [chat_id |-> "c1", text |-> "hi"] }

\* The ChatActionIntents the producers append.
ActIntents ==
    { [account_id |-> "1", chat_id |-> "c1", action |-> "mark_read"],
      [account_id |-> "1", chat_id |-> "c2", action |-> "mark_read"],
      [account_id |-> "1", chat_id |-> "c1", action |-> "typing"],
      [account_id |-> "2", chat_id |-> "c1", action |-> "mark_read"],
      [account_id |-> "3", chat_id |-> "c1", action |-> "mark_read"],
      [account_id |-> "abc", chat_id |-> "c1", action |-> "mark_read"],
      [chat_id |-> "c1", action |-> "mark_read"] }

IntentsOf(s) == IF s = OutStream THEN OutIntents ELSE ActIntents

\* The avito_accounts table: account 1 is active, account 2 is not, no other exists.
avito_accounts ==
    { [k |-> "AvitoAccount", id |-> 1, is_active |-> TRUE],
      [k |-> "AvitoAccount", id |-> 2, is_active |-> FALSE] }

\* session.get(AvitoAccount, account_id)
session_get(account_id) ==
    IF \E a \in avito_accounts : a.id = account_id
      THEN CHOOSE a \in avito_accounts : a.id = account_id
      ELSE JNone

\* An account check that only asks whether the account exists.
NotActive_ignores_is_active(acc) == acc.k # "AvitoAccount"

\* not (account and account.is_active)
NotActive(acc) == ~(acc.k = "AvitoAccount" /\ acc.is_active)

\* int(s) on the strings of the model.
py_int(s) ==
    CASE s = "1" -> Ok(JInt(1)) [] s = "2" -> Ok(JInt(2)) [] s = "3" -> Ok(JInt(3))
      [] OTHER -> Raise("ValueError")

\* data[key]
py_item(data, key) ==
    IF key \in DOMAIN data THEN Ok(JStr(data[key])) ELSE Raise("KeyError")

\* data.get(key): None when the key is absent.
data_get(data, key) == IF key \in DOMAIN data THEN JStr(data[key]) ELSE JNone

\* data.get(key, default) for a string default.
data_get_str(data, key, default) == IF key \in DOMAIN data THEN data[key] ELSE default

\* VIEW_KEY_TPL.format(account_id=account.id, chat_id=chat_id)
VIEW_KEY_TPL(account_id, chat_id) == "view:" \o DecStr(account_id) \o ":" \o chat_id

ChatIds == {"c1", "c2"}
ViewKeys == { VIEW_KEY_TPL(1, c) : c \in ChatIds }

\* A ChatViewModel, and the projection the source of truth gives for a chat.
ViewModel(account_id, chat_id, read) ==
    [k |-> "dict", account_id |-> account_id, chat_id |-> chat_id,
     is_last_message_read |-> read]

\* A python local that was never assigned.
Unbound == [k |-> "unbound"]

\* json.dumps(model) and json.loads(model_json) on a cached projection.
json_dumps(m) == [k |-> "str", json |-> m]
json_loads_model(text) == text.json

\* A cache slot: the key is missing, or holds a value with a ttl (-1: no expiry).
Missing == [exists |-> FALSE]
Cached(value, ttl) == [exists |-> TRUE, value |-> value, ttl |-> ttl]

\* redis.get(key): None when the key is missing.
redis_get(cache, key) == IF cache[key].exists THEN cache[key].value ELSE JNone

\* A SET without keepttl: the key loses its ttl.
redis_set_drops_ttl(cache, key, value) == [cache EXCEPT ![key] = Cached(value, -1)]

\* redis.set(key, value, keepttl=True): the key keeps its ttl; a key that did not
\* exist is created without one.
redis_set_keepttl(cache, key, value) ==
    [cache EXCEPT ![key] = Cached(value, IF cache[key].exists THEN cache[key].ttl ELSE -1)]

(***************************************************************************)
(* The consumer groups.                                                    *)
(***************************************************************************)
NoGroup == [exists |-> FALSE, last_delivered |-> 0, pending |-> {}]

\* redis.xgroup_create(stream, group, id="0", mkstream=True): BUSYGROUP when the
\* group exists, which both loops swallow.
xgroup_create(g) == IF g.exists THEN g ELSE [exists |-> TRUE, last_delivered |-> 0, pending |-> {}]

\* The failures of xgroup_create other than BUSYGROUP: another ResponseError (the key
\* holds something that is not a stream), or no connection.
GroupFaults == {"WRONGTYPE", "ConnectionError"}

\* What the call answers: a fault, else BUSYGROUP when the group exists, else OK.
xgroup_create_reply(g, fault) ==
    IF fault # "" THEN fault ELSE IF g.exists THEN "BUSYGROUP" ELSE "OK"

\* A startup that takes every failure of the group creation as fatal.
AfterGroupCreate_busy_is_fatal(reply) == IF reply = "OK" THEN "poll" ELSE "raised"

\* ENSURE_GROUP: BUSYGROUP is swallowed, every other failure is raised out of the
\* worker before its loop.
AfterGroupCreate(reply) == IF reply \in {"OK", "BUSYGROUP"} THEN "poll" ELSE "raised"

\* A group read that hands out the consumer's pending entries before new ones, as a
\* read from id "0" does.
xreadgroup_pending_first(g, stream) ==
    IF g.pending # {} THEN CHOOSE id \in g.pending : \A other \in g.pending : id <= other
    ELSE IF g.last_delivered < Len(stream) THEN g.last_delivered + 1 ELSE 0

\* redis.xreadgroup(group, consumer, {stream: ">"}, count=1, block=5000): the id of
\* the first entry never delivered to the group, 0 when there is none.
xreadgroup(g, stream) == IF g.last_delivered < Len(stream) THEN g.last_delivered + 1 ELSE 0

\* The group after the read delivered entry id.
Delivered(g, id) ==
    [g EXCEPT !.last_delivered = IF id > @ THEN id ELSE @, !.pending = @ \cup {id}]

\* redis.xack(stream, group, message_id)
xack(g, id) == [g EXCEPT !.pending = @ \ {id}]

(***************************************************************************)
(* The collaborators outside these files.                                  *)
(***************************************************************************)
\* The ttl of a fresh projection; the model counts time in halves of it.
VIEW_TTL_SECONDS == 2

ChatOfKey(key) == CHOOSE c \in ChatIds : VIEW_KEY_TPL(1, c) = key

\* A projection as the hot-path updater leaves it in the cache.
InitialSlot(key) == Cached(json_dumps(ViewModel(1, ChatOfKey(key), FALSE)), VIEW_TTL_SECONDS)

\* rehydrate_view_model(redis_client, account, chat_id): None when the chat cannot be
\* rebuilt, else the projection, which it stores under the view key with the view ttl.
rehydrate_view_model(cache, acc, chat_id, found) ==
    IF found
      THEN [model |-> ViewModel(acc.id, chat_id, FALSE),
            cache |-> [cache EXCEPT ![VIEW_KEY_TPL(acc.id, chat_id)] =
                          Cached(json_dumps(ViewModel(acc.id, chat_id, FALSE)), VIEW_TTL_SECONDS)]]
      ELSE [model |-> JNone, cache |-> cache]

(***************************************************************************)
(* Steps shared by the two loops.                                          *)
(***************************************************************************)
Data(w) == streams[StreamOf(w)][message_id[w]]

SetOutcome(w, o) == [outcome EXCEPT ![StreamOf(w)][message_id[w]] = o]

\* The fields both loops read off an entry before the account lookup; the chat-action
\* loop also reads data['action'].
Decode(s, data) ==
    LET account_id == py_item(data, "account_id")
        as_int == IF account_id.raised # "" THEN account_id ELSE py_int(account_id.val.v)
        chat_id == py_item(data, "chat_id")
        action == IF s = ActStream THEN py_item(data, "action") ELSE Ok(JNone)
    IN  IF as_int.raised # "" THEN as_int
        ELSE IF chat_id.raised # "" THEN chat_id
        ELSE IF action.raised # "" THEN action
        ELSE as_int

\* A loop whose account check forgets the xack before its "continue".
AfterOutcome_skip_without_ack(o) ==
    IF o = "uncaught" THEN "sleep" ELSE IF o = "skipped" THEN "poll" ELSE "ack"

\* An outer handler that logs the exception and raises it again.
AfterOutcome_uncaught_exits(o) == IF o = "uncaught" THEN "raised" ELSE "ack"

\* Where the loop goes once the processing of an entry has ended with outcome o: an
\* exception that reaches the outer handler leads to the back-off, every other end
\* to the xack that closes the iteration.
AfterOutcome(o) == IF o = "uncaught" THEN "sleep" ELSE "ack"

\* A producer appends an intent to one of the two streams.
Produce(s) ==
    /\ Len(streams[OutStream]) + Len(streams[ActStream]) < MaxEntries
    /\ \E data \in IntentsOf(s) :
         streams' = [streams EXCEPT ![s] = Append(@, data)]
    /\ deliveries' = [deliveries EXCEPT ![s] = Append(@, 0)]
    /\ outcome' = [outcome EXCEPT ![s] = Append(@, "none")]
    /\ UNCHANGED <<hookVars, group_reply, groups, view_cache, message_logs, pc, message_id, 
                   account, model_json, model, api_calls, rehydrations, notifications,
                   cache_ops>>

\* The worker starts: ENSURE_GROUP, then the loop, unless the creation failed.
StartWith(w, fault) ==
    /\ pc[w] = "start"
    /\ groups' = [groups EXCEPT ![StreamOf(w)] = IF fault = "" THEN xgroup_create(@) ELSE @]
    /\ group_reply' = [group_reply EXCEPT ![w] =
                          xgroup_create_reply(groups[StreamOf(w)], fault)]
    /\ pc' = [pc EXCEPT ![w] =
                AfterGroupCreate(xgroup_create_reply(groups[StreamOf(w)], fault))]
    /\ UNCHANGED <<hookVars, streams, view_cache, message_logs, message_id, 
                   account, model_json, model, api_calls, rehydrations, notifications,
                   cache_ops, deliveries, outcome>>

Start(w) == StartWith(w, "")

\* A start at which redis answers the group creation with a fault.
StartFails(w) == \E fault \in GroupFaults : StartWith(w, fault)

\* One group read and, for the entry it returns, the reading of its fields.
Poll(w) ==
    /\ pc[w] = "poll"
    /\ LET s == StreamOf(w)
           id == xreadgroup(groups[s], streams[s])
       IN  IF id = 0
             THEN UNCHANGED <<groups, deliveries, message_id, outcome, pc>>
             ELSE /\ groups' = [groups EXCEPT ![s] = Delivered(@, id)]
                  /\ deliveries' = [deliveries EXCEPT ![s][id] = @ + 1]
                  /\ message_id' = [message_id EXCEPT ![w] = id]
                  /\ IF Decode(s, streams[s][id]).raised # ""
                       THEN /\ outcome' = [outcome EXCEPT ![s][id] = "uncaught"]
                            /\ pc' = [pc EXCEPT ![w] = AfterOutcome("uncaught")]
                       ELSE /\ pc' = [pc EXCEPT ![w] = "lookup"]
                            /\ UNCHANGED outcome
    /\ UNCHANGED <<hookVars, group_reply, streams, view_cache, message_logs, account, model_json,
                   model, api_calls, rehydrations, notifications, cache_ops>>

\* The account lookup and the account check.
Lookup(w) ==
    /\ pc[w] = "lookup"
    /\ \E db_ok \in BOOLEAN :
         LET acc == session_get(Decode(StreamOf(w), Data(w)).val.v)
             o == IF ~db_ok THEN "uncaught" ELSE IF NotActive(acc) THEN "skipped" ELSE "none"
         IN  /\ account' = [account EXCEPT ![w] = IF db_ok THEN acc ELSE @]
             /\ outcome' = SetOutcome(w, o)
             /\ pc' = [pc EXCEPT ![w] =
                         IF o = "none" THEN (IF w \in OutWorkers THEN "send" ELSE "perform")
                         ELSE AfterOutcome(o)]
    /\ UNCHANGED <<hookVars, group_reply, streams, groups, view_cache, message_logs, message_id,  model_json, model, api_calls, rehydrations, notifications,
                   cache_ops, deliveries>>

\* A group read that raises (no connection, or the group is gone).
ReadFails(w) ==
    /\ pc[w] = "poll"
    /\ pc' = [pc EXCEPT ![w] = AfterOutcome("uncaught")]
    /\ UNCHANGED <<hookVars, group_reply, streams, groups, view_cache, message_logs,
                   message_id, account, model_json, model, api_calls, rehydrations,
                   notifications, cache_ops, deliveries, outcome>>

\* An xack that raises: the entry stays pending, the exception reaches the outer
\* handler.
AckFails(w) ==
    /\ pc[w] = "ack"
    /\ outcome' = SetOutcome(w, "uncaught")
    /\ pc' = [pc EXCEPT ![w] = AfterOutcome("uncaught")]
    /\ UNCHANGED <<hookVars, group_reply, streams, groups, view_cache, message_logs,
                   message_id, account, model_json, model, api_calls, rehydrations,
                   notifications, cache_ops, deliveries>>

\* The xack that closes an iteration.
Ack(w) ==
    /\ pc[w] = "ack"
    /\ groups' = [groups EXCEPT ![StreamOf(w)] = xack(@, message_id[w])]
    /\ pc' = [pc EXCEPT ![w] = "poll"]
    /\ UNCHANGED <<hookVars, group_reply, streams, view_cache, message_logs, message_id, 
                   account, model_json, model, api_calls, rehydrations, notifications,
                   cache_ops, deliveries, outcome>>

\* The outer handler: log, asyncio.sleep(5), next iteration.
Sleep(w) ==
    /\ pc[w] = "sleep"
    /\ pc' = [pc EXCEPT ![w] = "poll"]
    /\ UNCHANGED <<hookVars, group_reply, streams, groups, view_cache, message_logs, message_id,  account, model_json, model, api_calls, rehydrations,
                   notifications, cache_ops, deliveries, outcome>>

\* The process dies and is started again: its locals are gone, the stores stay.
\* (The restart of an idle process that holds nothing changes nothing.)
Restart(w) ==
    /\ pc[w] # "start"
    /\ pc[w] = "poll" => message_id[w] # 0
    /\ pc' = [pc EXCEPT ![w] = "start"]
    /\ group_reply' = [group_reply EXCEPT ![w] = ""]
    /\ message_id' = [message_id EXCEPT ![w] = 0]
    /\ account' = [account EXCEPT ![w] = Unbound]
    /\ model_json' = [model_json EXCEPT ![w] = Unbound]
    /\ model' = [model EXCEPT ![w] = Unbound]
    /\ UNCHANGED <<hookVars, streams, groups, view_cache, message_logs, api_calls,
                   rehydrations, notifications, cache_ops, deliveries, outcome>>

(***************************************************************************)
(* process_outgoing_messages                                               *)
(***************************************************************************)
\* The send the dispatcher makes for an intent: the image send for image_reply, which
\* needs data['image_id'], the text send for everything else.
SendCall(data) ==
    LET action_type == data_get_str(data, "action_type", "manual_reply")
    IN  IF action_type = "image_reply"
          THEN IF "image_id" \in DOMAIN data
                 THEN Ok(JStr("send_image_message")) ELSE Raise("KeyError")
          ELSE Ok(JStr("send_text_message"))

\* A row whose trigger is looked up under the other reply type's field.
MessageLog_swapped_trigger(acc, data) ==
    LET action_type == data_get_str(data, "action_type", "manual_reply")
        is_autoreply == action_type = "auto_reply"
    IN  [account_id |-> acc.id,
         chat_id |-> data["chat_id"],
         direction |-> "out",
         is_autoreply |-> is_autoreply,
         trigger_name |-> IF is_autoreply THEN data_get(data, "template_name")
                          ELSE IF action_type = "template_reply"
                                 THEN data_get(data, "rule_name")
                                 ELSE JNone]

\* The MessageLog row built after a successful send.
MessageLog(acc, data) ==
    LET action_type == data_get_str(data, "action_type", "manual_reply")
        is_autoreply == action_type = "auto_reply"
    IN  [account_id |-> acc.id,
         chat_id |-> data["chat_id"],
         direction |-> "out",
         is_autoreply |-> is_autoreply,
         trigger_name |-> IF is_autoreply THEN data_get(data, "rule_name")
                          ELSE IF action_type = "template_reply"
                                 THEN data_get(data, "template_name")
                                 ELSE JNone]

\* A try block in which a failed send does not skip the logging.
AfterSend_logs_anyway(sent) == "log"

\* How the send step ends: the row is logged only after the send returned.
AfterSend(sent) == IF sent THEN "log" ELSE AfterOutcome("send_failed")

\* Step 1 of the try block: the send to Avito.
OutSend(w) ==
    /\ pc[w] = "send"
    /\ LET data == Data(w)
           call == SendCall(data)
       IN  IF call.raised # ""
             THEN /\ outcome' = SetOutcome(w, "send_failed")
                  /\ pc' = [pc EXCEPT ![w] = AfterSend(FALSE)]
                  /\ UNCHANGED api_calls
             ELSE \E sent \in BOOLEAN :
                    /\ api_calls' = Append(api_calls,
                          [stream |-> OutStream, id |-> message_id[w], call |-> call.val.v,
                           chat_id |-> data["chat_id"],
                           text |-> data_get_str(data, "text", ""), ok |-> sent])
                    /\ outcome' = SetOutcome(w, IF sent THEN "sent" ELSE "send_failed")
                    /\ pc' = [pc EXCEPT ![w] = AfterSend(sent)]
    /\ UNCHANGED <<hookVars, group_reply, streams, groups, view_cache, message_logs, message_id,  account, model_json, model, rehydrations, notifications,
                   cache_ops, deliveries>>

\* session.add(log_entry_db); session.commit(): the table after the commit.
commit(table, row, committed) == IF committed THEN Append(table, row) ELSE table

\* Step 2 of the try block: the row in message_logs.
OutLog(w) ==
    /\ pc[w] = "log"
    /\ \E committed \in BOOLEAN :
         /\ message_logs' = commit(message_logs,
                                   [row |-> MessageLog(account[w], Data(w)),
                                    id |-> message_id[w]], committed)
         /\ outcome' = SetOutcome(w, IF committed THEN "logged" ELSE "log_failed")
         /\ pc' = [pc EXCEPT ![w] =
                     AfterOutcome(IF committed THEN "logged" ELSE "log_failed")]
    /\ UNCHANGED <<hookVars, group_reply, streams, groups, view_cache, message_id,  account,
                   model_json, model, api_calls, rehydrations, notifications, cache_ops,
                   deliveries>>

(***************************************************************************)
(* process_chat_actions                                                    *)
(***************************************************************************)
ViewKeyOf(w) == VIEW_KEY_TPL(account[w].id, Data(w)["chat_id"])

\* if model_json: / if not model: -- None is false; a JSON text and a projection
\* are true.
Truthy(v) == v.k \in {"dict", "str"}

\* An update that leaves the flag as it was read.
MarkRead_keeps_flag(m) == m

\* model["is_last_message_read"] = True
MarkRead(m) == [m EXCEPT !.is_last_message_read = TRUE]

\* The record of a call of renderer.update_all_subscribers in the history.
Notification(w) == [id |-> message_id[w], key |-> ViewKeyOf(w), model |-> model[w]]

\* A variant of the loop that still makes the renderer call in the first write-back.
FirstWriteStillNotifies(w) == <<Notification(w)>>

\* The renderer calls the first write-back makes: the call was removed from it.
FirstWriteNotifies(w) == <<>>

\* A try block that goes on to the projection although mark_as_read raised.
AfterPerform_ignores_failure(done) == "cache_get"

\* How the external call ends: the projection is touched only after it returned.
AfterPerform(done) == IF done THEN "cache_get" ELSE AfterOutcome("action_failed")

\* A dispatch that takes every action for mark_read.
IsMarkRead_any_action(action_type) == TRUE

\* if action_type == "mark_read":
IsMarkRead(action_type) == action_type = "mark_read"

\* actions.mark_as_read, for a mark_read intent; any other action is only logged.
ActPerform(w) ==
    /\ pc[w] = "perform"
    /\ IF IsMarkRead(Data(w)["action"])
         THEN \E done \in BOOLEAN :
                /\ api_calls' = Append(api_calls,
                      [stream |-> ActStream, id |-> message_id[w], call |-> "mark_as_read",
                       chat_id |-> Data(w)["chat_id"], text |-> "", ok |-> done])
                /\ outcome' = SetOutcome(w, IF done THEN "none" ELSE "action_failed")
                /\ pc' = [pc EXCEPT ![w] = AfterPerform(done)]
         ELSE /\ outcome' = SetOutcome(w, "unknown_action")
              /\ pc' = [pc EXCEPT ![w] = AfterOutcome("unknown_action")]
              /\ UNCHANGED api_calls
    /\ UNCHANGED <<hookVars, group_reply, streams, groups, view_cache, message_logs, message_id,  account, model_json, model, rehydrations, notifications,
                   cache_ops, deliveries>>

\* model_json = redis.get(view_key); a hit is parsed and marked read.
ActCacheGet(w) ==
    /\ pc[w] = "cache_get"
    /\ LET got == redis_get(view_cache, ViewKeyOf(w))
       IN  /\ model_json' = [model_json EXCEPT ![w] = got]
           /\ cache_ops' = Append(cache_ops,
                 [op |-> "get", id |-> message_id[w], key |-> ViewKeyOf(w),
                  hit |-> Truthy(got)])
           /\ IF Truthy(got)
                THEN /\ model' = [model EXCEPT ![w] = MarkRead(json_loads_model(got))]
                     /\ pc' = [pc EXCEPT ![w] = "cache_set"]
                ELSE /\ pc' = [pc EXCEPT ![w] = "check_model"]
                     /\ UNCHANGED model
    /\ UNCHANGED <<hookVars, group_reply, streams, groups, view_cache, message_logs, message_id,  account, api_calls, rehydrations, notifications, deliveries,
                   outcome>>

\* The record of a SET in the history.
SetOp(w, cache) ==
    [op |-> "set", id |-> message_id[w], key |-> ViewKeyOf(w),
     value |-> json_loads_model(json_dumps(model[w])),
     existed |-> cache[ViewKeyOf(w)].exists,
     ttl_before |-> IF cache[ViewKeyOf(w)].exists THEN cache[ViewKeyOf(w)].ttl ELSE 0,
     ttl_after |-> redis_set_keepttl(cache, ViewKeyOf(w), json_dumps(model[w]))[ViewKeyOf(w)].ttl]

\* The write-back inside "if model_json".
ActCacheSet(w) ==
    /\ pc[w] = "cache_set"
    /\ view_cache' = redis_set_keepttl(view_cache, ViewKeyOf(w), json_dumps(model[w]))
    /\ cache_ops' = Append(cache_ops, SetOp(w, view_cache))
    /\ notifications' = notifications \o FirstWriteNotifies(w)
    /\ pc' = [pc EXCEPT ![w] = "check_model"]
    /\ UNCHANGED <<hookVars, group_reply, streams, groups, message_logs, message_id,  account,
                   model_json, model, api_calls, rehydrations, deliveries, outcome>>

\* "if not model": reading a local that was never assigned raises UnboundLocalError,
\* which the inner handler catches; a false model is rehydrated; a true one, also
\* one an earlier iteration left behind, goes on to the second write-back.
ActCheckModel(w) ==
    /\ pc[w] = "check_model"
    /\ IF model[w] = Unbound
         THEN /\ outcome' = SetOutcome(w, "error")
              /\ pc' = [pc EXCEPT ![w] = AfterOutcome("error")]
              /\ UNCHANGED <<model, rehydrations, view_cache>>
         ELSE IF ~Truthy(model[w])
           THEN \E found \in BOOLEAN :
                  LET r == rehydrate_view_model(view_cache, account[w],
                                                Data(w)["chat_id"], found)
                  IN  /\ rehydrations' = Append(rehydrations,
                            [id |-> message_id[w], key |-> ViewKeyOf(w), found |-> found])
                      /\ model' = [model EXCEPT ![w] = r.model]
                      /\ view_cache' = r.cache
                      /\ outcome' = SetOutcome(w, IF found THEN "none" ELSE "rehydrate_failed")
                      /\ pc' = [pc EXCEPT ![w] =
                                  IF found THEN "cache_set_2"
                                  ELSE AfterOutcome("rehydrate_failed")]
           ELSE /\ pc' = [pc EXCEPT ![w] = "cache_set_2"]
                /\ UNCHANGED <<model, rehydrations, view_cache, outcome>>
    /\ UNCHANGED <<hookVars, group_reply, streams, groups, message_logs, message_id,  account,
                   model_json, api_calls, notifications, cache_ops, deliveries>>

\* The second write-back: mark read and SET again.
ActCacheSet2(w) ==
    /\ pc[w] = "cache_set_2"
    /\ model' = [model EXCEPT ![w] = MarkRead(@)]
    /\ view_cache' = redis_set_keepttl(view_cache, ViewKeyOf(w), json_dumps(MarkRead(model[w])))
    /\ cache_ops' = Append(cache_ops,
          [SetOp(w, view_cache) EXCEPT !.value = MarkRead(model[w])])
    /\ pc' = [pc EXCEPT ![w] = "notify"]
    /\ UNCHANGED <<hookVars, group_reply, streams, groups, message_logs, message_id,  account,
                   model_json, api_calls, rehydrations, notifications, deliveries,
                   outcome>>

\* renderer.update_all_subscribers(view_key, model)
ActNotify(w) ==
    /\ pc[w] = "notify"
    /\ notifications' = Append(notifications, Notification(w))
    /\ outcome' = SetOutcome(w, "notified")
    /\ pc' = [pc EXCEPT ![w] = AfterOutcome("notified")]
    /\ UNCHANGED <<hookVars, group_reply, streams, groups, view_cache, message_logs, message_id,  account, model_json, model, api_calls, rehydrations,
                   cache_ops, deliveries>>

\* A cached projection ages; when its ttl runs out the key is gone.
Expire(key) ==
    /\ view_cache[key].exists
    /\ view_cache[key].ttl > 0
    /\ view_cache' = [view_cache EXCEPT ![key] =
                        IF @.ttl = 1 THEN Missing ELSE [@ EXCEPT !.ttl = @ - 1]]
    /\ UNCHANGED <<hookVars, group_reply, streams, groups, message_logs, pc, message_id, 
                   account, model_json, model, api_calls, rehydrations, notifications,
                   cache_ops, deliveries, outcome>>

(***************************************************************************)
(* Specifications.                                                         *)
(***************************************************************************)
\* The stores and the workers at start; the projections of the keys K may be cached.
WorkerInit(K) ==
    /\ streams = [s \in StreamNames |-> <<>>]
    /\ groups = [s \in StreamNames |-> NoGroup]
    /\ view_cache \in { c \in [ViewKeys -> {Missing} \cup { InitialSlot(key) : key \in ViewKeys }] :
                          \A key \in ViewKeys :
                             c[key] \in (IF key \in K THEN {Missing, InitialSlot(key)}
                                         ELSE {Missing}) }
    /\ message_logs = <<>>
    /\ pc = [w \in Workers |-> "start"]
    /\ group_reply = [w \in Workers |-> ""]
    /\ message_id = [w \in Workers |-> 0]
    /\ account = [w \in Workers |-> Unbound]
    /\ model_json = [w \in Workers |-> Unbound]
    /\ model = [w \in Workers |-> Unbound]
    /\ api_calls = <<>>
    /\ rehydrations = <<>>
    /\ notifications = <<>>
    /\ cache_ops = <<>>
    /\ deliveries = [s \in StreamNames |-> <<>>]
    /\ outcome = [s \in StreamNames |-> <<>>]

InitWith(K) ==
    /\ avito_webhook_secret = Secret
    /\ raw_webhooks = <<>>
    /\ requests = <<>>
    /\ verifications = <<>>
    /\ WorkerInit(K)

\* The steps a worker instance takes by itself.
Step(w) ==
    \/ Start(w)
    \/ Poll(w)
    \/ Lookup(w)
    \/ Ack(w)
    \/ Sleep(w)
    \/ (w \in OutWorkers /\ (OutSend(w) \/ OutLog(w)))
    \/ (w \in ActWorkers /\ (ActPerform(w) \/ ActCacheGet(w) \/ ActCacheSet(w)
                              \/ ActCheckModel(w) \/ ActCacheSet2(w) \/ ActNotify(w)))

\* The steps of the worker instances W, with producers on the streams S and the
\* cached projections K ageing.
Run(W, S, K) ==
    \/ \E s \in S : Produce(s)
    \/ \E w \in W : Start(w)
    \/ \E w \in W : Poll(w)
    \/ \E w \in W : Lookup(w)
    \/ \E w \in W : Ack(w)
    \/ \E w \in W : Sleep(w)
    \/ \E w \in W : Restart(w)
    \/ \E w \in W \cap OutWorkers : OutSend(w)
    \/ \E w \in W \cap OutWorkers : OutLog(w)
    \/ \E w \in W \cap ActWorkers : ActPerform(w)
    \/ \E w \in W \cap ActWorkers : ActCacheGet(w)
    \/ \E w \in W \cap ActWorkers : ActCacheSet(w)
    \/ \E w \in W \cap ActWorkers : ActCheckModel(w)
    \/ \E w \in W \cap ActWorkers : ActCacheSet2(w)
    \/ \E w \in W \cap ActWorkers : ActNotify(w)
    \/ \E key \in K : Expire(key)

\* start_avito_outgoing_worker: one process running one instance of each loop.
Gathered == {"outgoing_consumer_1/p1", "action_consumer_1/p1"}

Init == InitWith(ViewKeys)

Next == Run(Gathered, StreamNames, ViewKeys)

Spec == Init /\ [][Next]_vars

\* The event loop keeps running every coroutine that can take a step.
FairSpec == Spec /\ \A w \in Gathered : WF_vars(Step(w))

\* Each loop alone, scaled out to two instances sharing its group.
OutInit == InitWith({})

OutNext == Run(OutWorkers, {OutStream}, {})

OutSpec == OutInit /\ [][OutNext]_vars

\* The scaled-out chat-action loop and the faulty process below are run with the
\* projection of one chat cached and ageing; the other chat's is never cached.
CachedKeys == {VIEW_KEY_TPL(1, "c1")}

ActInit == InitWith(CachedKeys)

ActNext == Run(ActWorkers, {ActStream}, CachedKeys)

ActSpec == ActInit /\ [][ActNext]_vars

\* The gathered process with redis failing now and then: at the group creation, at
\* a group read, at an xack.
FaultInit == InitWith(CachedKeys)

FaultNext ==
    \/ Run(Gathered, StreamNames, CachedKeys)
    \/ \E w \in Gathered : StartFails(w)
    \/ \E w \in Gathered : ReadFails(w)
    \/ \E w \in Gathered : AckFails(w)

FaultSpec == FaultInit /\ [][FaultNext]_vars

IngestInit ==
    /\ avito_webhook_secret \in {"", Secret}
    /\ raw_webhooks = <<>>
    /\ requests = <<>>
    /\ verifications = <<>>
    /\ WorkerInit({})

IngestNext == HandleRequest

IngestSpec == IngestInit /\ [][IngestNext]_vars

\* verify_signature alone, on every body and signature of the model.
VerifyNext == VerifySignature

VerifySpec == IngestInit /\ [][VerifyNext]_vars

(***************************************************************************)
(* What the histories say about an entry.                                  *)
(***************************************************************************)
Ids(s) == DOMAIN streams[s]

CallsFor(s, id) == { i \in DOMAIN api_calls : api_calls[i].stream = s /\ api_calls[i].id = id }

OkCallsFor(s, id) == { i \in CallsFor(s, id) : api_calls[i].ok }

LogsFor(id) == { i \in DOMAIN message_logs : message_logs[i].id = id }

NotificationsFor(id) == { i \in DOMAIN notifications : notifications[i].id = id }

RehydrationsFor(id) == { i \in DOMAIN rehydrations : rehydrations[i].id = id }

SetsFor(id) == { i \in DOMAIN cache_ops : cache_ops[i].op = "set" /\ cache_ops[i].id = id }

CacheHit(id) ==
    \E i \in DOMAIN cache_ops : cache_ops[i].op = "get" /\ cache_ops[i].id = id /\ cache_ops[i].hit

CacheMiss(id) ==
    \E i \in DOMAIN cache_ops : cache_ops[i].op = "get" /\ cache_ops[i].id = id /\ ~cache_ops[i].hit

\* The entry was delivered and has been acknowledged.
Acked(s, id) == deliveries[s][id] > 0 /\ id \notin groups[s].pending

Pending(s, id) == id \in groups[s].pending

IsPrefix(a, b) == Len(a) <= Len(b) /\ SubSeq(b, 1, Len(a)) = a

\* The ends of an iteration that the inner code decides: every one but the exception
\* that reaches the outer handler.
Terminal ==
    {"skipped", "send_failed", "log_failed", "logged",
     "action_failed", "unknown_action", "error", "rehydrate_failed", "notified"}

(***************************************************************************)
(* C1.  For every entry of avito:outgoing:messages, over all its           *)
(* deliveries (after an uncaught exception, after a crash between read and *)
(* ack, with several instances in the group), at most one send call is     *)
(* made and at most one MessageLog row is committed.                       *)
(***************************************************************************)
C1_AtMostOneSendAndLog ==
    \A id \in Ids(OutStream) :
        /\ Cardinality(CallsFor(OutStream, id)) <= 1
        /\ Cardinality(LogsFor(id)) <= 1

\* An entry was sent and logged, its worker died before the xack and is polling again
\* beside the other instance.
C1_Witness ==
    \E id \in Ids(OutStream) :
        /\ Cardinality(OkCallsFor(OutStream, id)) = 1
        /\ Cardinality(LogsFor(id)) = 1
        /\ Pending(OutStream, id)
        /\ \A w \in OutWorkers : pc[w] = "poll" /\ message_id[w] # id

(***************************************************************************)
(* C2.  No event is silently dropped: under fair scheduling every entry a  *)
(* loop has read with a group read is eventually acknowledged, also when   *)
(* its processing was interrupted by an exception that reached the outer   *)
(* handler or by a restart; no entry stays pending forever.                *)
(***************************************************************************)
C2_EveryReadEntryIsAcked ==
    \A s \in StreamNames :
        \A id \in 1..MaxEntries :
            (id \in Ids(s) /\ Pending(s, id)) ~> (id \in Ids(s) /\ ~Pending(s, id))

(***************************************************************************)
(* C3.  With a webhook secret configured, a request whose signature header *)
(* is missing or is not the HMAC of the raw body is answered with a status *)
(* other than 200 and appends nothing to stream:avito:raw_webhooks.        *)
(***************************************************************************)
C3_BadSignatureIsRejected ==
    \A i \in DOMAIN requests :
        (avito_webhook_secret # ""
           /\ verify_signature(avito_webhook_secret, requests[i].body,
                               requests[i].x_signature) # Returns(TRUE))
        => /\ requests[i].response.status_code # 200
           /\ requests[i].after = requests[i].before

(***************************************************************************)
(* C4.  In both loops every terminal outcome of an entry (success, missing *)
(* or inactive account, failure of the external call, failure of the local *)
(* logging or bookkeeping) has acknowledged the entry by the time the loop *)
(* issues its next group read.                                             *)
(***************************************************************************)
C4_TerminalOutcomeIsAcked ==
    \A w \in Workers :
        (pc[w] = "poll" /\ message_id[w] # 0
           /\ outcome[StreamOf(w)][message_id[w]] \in Terminal)
        => ~Pending(StreamOf(w), message_id[w])

\* Both loops are back at their group read, the dispatcher after a commit that
\* failed, the chat-action loop after an external call that failed.
C4_Witness ==
    /\ \E w \in OutWorkers :
          /\ pc[w] = "poll" /\ message_id[w] # 0
          /\ outcome[OutStream][message_id[w]] = "log_failed"
    /\ \E w \in ActWorkers :
          /\ pc[w] = "poll" /\ message_id[w] # 0
          /\ outcome[ActStream][message_id[w]] = "action_failed"

(***************************************************************************)
(* C5.  After an exception reached a loop's outer handler while an entry   *)
(* was read and not acknowledged, the entry stays pending and the next     *)
(* group read of the consumer, after the back-off, delivers it again: no   *)
(* later entry is delivered to the group before it.                        *)
(***************************************************************************)
C5_PendingEntryIsRedelivered ==
    \A s \in StreamNames :
        \A id \in Ids(s) :
            outcome[s][id] = "uncaught"
            => /\ Pending(s, id)
               /\ (\E later \in Ids(s) : later > id /\ deliveries[s][later] > 0)
                     => deliveries[s][id] >= 2

(***************************************************************************)
(* C6.  For an intent whose account is missing or inactive the worker      *)
(* makes no external call, writes no MessageLog row and no projection,     *)
(* notifies nobody, and acknowledges the entry, which is never delivered   *)
(* again.                                                                  *)
(***************************************************************************)
\* The intent names an account that the table does not hold as active.
MissingOrInactive(s, id) ==
    LET n == Decode(s, streams[s][id])
    IN  n.raised = "" /\ \A a \in avito_accounts : a.id = n.val.v => ~a.is_active

C6_InactiveAccountIsSkipped ==
    \A s \in StreamNames :
        \A id \in Ids(s) :
            MissingOrInactive(s, id)
            => /\ CallsFor(s, id) = {}
               /\ s = OutStream => LogsFor(id) = {}
               /\ s = ActStream => (SetsFor(id) = {} /\ NotificationsFor(id) = {}
                                     /\ RehydrationsFor(id) = {})
               /\ outcome[s][id] \in {"none", "skipped", "uncaught"}
               /\ deliveries[s][id] <= 1
               /\ \A w \in Workers :
                     (StreamOf(w) = s /\ message_id[w] = id /\ pc[w] = "poll"
                        /\ outcome[s][id] = "skipped")
                     => Acked(s, id)

\* The dispatcher has skipped and acknowledged an intent of the inactive account, the
\* chat-action loop one of an account that does not exist.
C6_Witness ==
    /\ \E id \in Ids(OutStream) :
          /\ "account_id" \in DOMAIN streams[OutStream][id]
          /\ streams[OutStream][id]["account_id"] = "2"
          /\ outcome[OutStream][id] = "skipped" /\ Acked(OutStream, id)
    /\ \E id \in Ids(ActStream) :
          /\ "account_id" \in DOMAIN streams[ActStream][id]
          /\ streams[ActStream][id]["account_id"] = "3"
          /\ outcome[ActStream][id] = "skipped" /\ Acked(ActStream, id)

(***************************************************************************)
(* C7.  A mark_read entry whose external call succeeded and whose cached   *)
(* projection is absent makes exactly one rehydration call; if that fails  *)
(* the entry is acknowledged and nobody is notified, if it succeeds the    *)
(* projection is written with is_last_message_read = true and exactly one  *)
(* notification fires.                                                     *)
(***************************************************************************)
C7_MissRehydratesOnce ==
    \A id \in Ids(ActStream) :
        (CacheMiss(id) /\ Acked(ActStream, id))
        => /\ Cardinality(RehydrationsFor(id)) = 1
           /\ \A i \in RehydrationsFor(id) :
                 IF rehydrations[i].found
                   THEN /\ Cardinality(NotificationsFor(id)) = 1
                        /\ \E j \in SetsFor(id) : cache_ops[j].value.is_last_message_read
                   ELSE NotificationsFor(id) = {}

(***************************************************************************)
(* C8.  A mark_read entry whose cached projection is present writes the    *)
(* projection back with is_last_message_read = true and notifies the       *)
(* subscribers exactly once; no mark_read entry notifies more than once.   *)
(***************************************************************************)
C8_HitNotifiesOnce ==
    \A id \in Ids(ActStream) :
        /\ Cardinality(NotificationsFor(id)) <= 1
        /\ (CacheHit(id) /\ Acked(ActStream, id))
           => /\ Cardinality(NotificationsFor(id)) = 1
              /\ \E i \in SetsFor(id) :
                    /\ cache_ops[i].value.is_last_message_read
                    /\ cache_ops[i].key = VIEW_KEY_TPL(1, streams[ActStream][id]["chat_id"])

\* An entry found its projection cached, and was processed to the end.
C8_Witness ==
    \E id \in Ids(ActStream) :
        /\ CacheHit(id) /\ Acked(ActStream, id)
        /\ Cardinality(NotificationsFor(id)) = 1

(***************************************************************************)
(* C9.  The committed outbound MessageLog rows never outnumber the sends   *)
(* that returned: a row is committed only after a successful send of the   *)
(* same entry, exactly one row per successful send whose commit succeeds,  *)
(* none for a failed send; rows are never updated or deleted.              *)
(***************************************************************************)
C9_RowsMatchSends ==
    /\ Len(message_logs)
         <= Cardinality({ i \in DOMAIN api_calls :
                            api_calls[i].stream = OutStream /\ api_calls[i].ok })
    /\ \A id \in Ids(OutStream) :
          /\ Cardinality(LogsFor(id)) <= Cardinality(OkCallsFor(OutStream, id))
          /\ outcome[OutStream][id] = "logged" => Cardinality(LogsFor(id)) = 1
          /\ outcome[OutStream][id] = "send_failed" => LogsFor(id) = {}

C9_RowsFollowSends ==
    [][C9_RowsMatchSends /\ C9_RowsMatchSends' /\ IsPrefix(message_logs, message_logs')]_vars

\* One entry was sent and logged, the send of another failed.
C9_Witness ==
    /\ \E id \in Ids(OutStream) :
          outcome[OutStream][id] = "logged" /\ Acked(OutStream, id)
    /\ \E id \in Ids(OutStream) :
          /\ outcome[OutStream][id] = "send_failed" /\ Acked(OutStream, id)
          /\ CallsFor(OutStream, id) # {}

(***************************************************************************)
(* C10.  A webhook call whose body parses as JSON with payload.type        *)
(* "message" appends exactly one entry {event_id, raw_body} to             *)
(* stream:avito:raw_webhooks, raw_body being the body text and event_id    *)
(* the stringified payload.value.id (also when the id or payload.value is  *)
(* absent or null), and returns 200 "ok".                                  *)
(***************************************************************************)
\* payload.type of a parsed body, None when there is no such field.
PayloadField(v, field) ==
    IF v.k = "dict" /\ "payload" \in DOMAIN v.m /\ v.m["payload"].k = "dict"
         /\ field \in DOMAIN v.m["payload"].m
      THEN v.m["payload"].m[field] ELSE JNone

\* payload.value.id as a string, "None" when the id or the value is absent or null.
StringifiedId(v) ==
    LET value == PayloadField(v, "value")
    IN  IF value.k = "dict" /\ "id" \in DOMAIN value.m THEN py_str(value.m["id"])
        ELSE "None"

C10_MessageIsAppendedOnce ==
    \A i \in DOMAIN requests :
        LET r == requests[i]
            parsed == json_loads(r.body)
        IN  (parsed.raised = "" /\ PayloadField(parsed.val, "type") = JStr("message")
               /\ r.redis_ok)
            => /\ r.response = Response("ok", 200)
               /\ r.after = Append(r.before,
                                   [event_id |-> StringifiedId(parsed.val),
                                    raw_body |-> r.body])

(***************************************************************************)
(* C11.  A webhook call whose body parses as JSON and whose payload.type   *)
(* is not "message" (also a body with no payload, with a null or           *)
(* non-object payload, or whose top-level value is not an object) is       *)
(* answered with 200 and appends nothing to the stream.                    *)
(***************************************************************************)
C11_NonMessageIsIgnored ==
    \A i \in DOMAIN requests :
        LET r == requests[i]
            parsed == json_loads(r.body)
        IN  (parsed.raised = "" /\ PayloadField(parsed.val, "type") # JStr("message"))
            => /\ r.response.status_code = 200
               /\ r.after = r.before

(***************************************************************************)
(* C12.  A webhook call whose body is not valid JSON is answered with 400  *)
(* and appends nothing to the stream.                                      *)
(***************************************************************************)
C12_BadJsonIsRejected ==
    \A i \in DOMAIN requests :
        json_loads(requests[i].body).raised # ""
        => /\ requests[i].response.status_code = 400
           /\ requests[i].after = requests[i].before

(***************************************************************************)
(* C13.  Every webhook call, whatever its body bytes and signature header  *)
(* and whether or not the stream append succeeds, is answered with 200 or  *)
(* 400: no call ends in an unhandled error.                                *)
(***************************************************************************)
C13_OnlyOkOrBadRequest ==
    \A i \in DOMAIN requests : requests[i].response.status_code \in {200, 400}

(***************************************************************************)
(* C14.  Every write the chat-action worker makes to a view key that       *)
(* exists leaves the key's remaining expiry as it was: the update neither  *)
(* removes nor resets the ttl.                                             *)
(***************************************************************************)
\* The step is a SET of the worker on this key.
SetsKey(key) ==
    /\ Len(cache_ops') = Len(cache_ops) + 1
    /\ cache_ops'[Len(cache_ops')].op = "set"
    /\ cache_ops'[Len(cache_ops')].key = key

C14_WriteKeepsExpiry ==
    [][\A key \in ViewKeys :
          (SetsKey(key) /\ view_cache[key].exists)
          => /\ view_cache'[key].exists
             /\ view_cache'[key].ttl = view_cache[key].ttl]_vars

\* A projection that had aged to half its ttl was written back twice and still has
\* that ttl.
C14_Witness ==
    \E key \in ViewKeys :
        /\ view_cache[key].exists /\ view_cache[key].ttl = 1
        /\ json_loads_model(view_cache[key].value).is_last_message_read
        /\ Cardinality({ i \in DOMAIN cache_ops :
                           /\ cache_ops[i].op = "set" /\ cache_ops[i].key = key
                           /\ cache_ops[i].existed /\ cache_ops[i].ttl_before = 1 }) = 2

(***************************************************************************)
(* C15.  A ChatActionIntent of an active account whose action is not       *)
(* mark_read causes no external call, no cache read or write, no           *)
(* rehydration and no notification, and the entry is acknowledged.         *)
(***************************************************************************)
\* The entry names the active account and an action other than mark_read.
OtherActionOfActive(id) ==
    LET data == streams[ActStream][id]
        n == Decode(ActStream, data)
    IN  /\ n.raised = ""
        /\ \E a \in avito_accounts : a.id = n.val.v /\ a.is_active
        /\ data["action"] # "mark_read"

CacheOpsFor(id) == { i \in DOMAIN cache_ops : cache_ops[i].id = id }

C15_OtherActionHasNoEffect ==
    \A id \in Ids(ActStream) :
        OtherActionOfActive(id)
        => /\ CallsFor(ActStream, id) = {}
           /\ CacheOpsFor(id) = {}
           /\ RehydrationsFor(id) = {}
           /\ NotificationsFor(id) = {}
           /\ outcome[ActStream][id] \in {"none", "unknown_action", "uncaught"}
           /\ \A w \in ActWorkers :
                 (message_id[w] = id /\ pc[w] = "poll"
                    /\ outcome[ActStream][id] = "unknown_action")
                 => Acked(ActStream, id)

\* A "typing" intent of the active account was processed and acknowledged.
C15_Witness ==
    \E id \in Ids(ActStream) :
        /\ OtherActionOfActive(id)
        /\ outcome[ActStream][id] = "unknown_action"
        /\ Acked(ActStream, id)
        /\ \E w \in ActWorkers : message_id[w] = id /\ pc[w] = "poll"

(***************************************************************************)
(* C16.  At the start of either worker a group creation answered with      *)
(* BUSYGROUP lets the worker go on to its polling loop and leaves the      *)
(* group as it is; any other failure of the creation is raised out of the  *)
(* worker, whose loop is then never entered.                               *)
(***************************************************************************)
C16_Started ==
    \A w \in Workers :
        /\ group_reply[w] \in {"OK", "BUSYGROUP"}
           => (pc[w] \notin {"start", "raised"} /\ groups[StreamOf(w)].exists)
        /\ group_reply[w] \in GroupFaults => pc[w] = "raised"
        /\ pc[w] = "raised" => group_reply[w] \in GroupFaults

C16_EnsureGroupIsIdempotent ==
    [][/\ C16_Started /\ C16_Started'
       /\ \A w \in Workers :
             /\ (pc[w] = "start" /\ pc'[w] # "start" /\ groups[StreamOf(w)].exists)
                => (groups' = groups /\ deliveries' = deliveries)
             /\ pc[w] = "raised" => pc'[w] \in {"raised", "start"}]_vars

\* The dispatcher's start was answered with a fault and it never entered its loop;
\* the chat-action worker, started again over its group, is polling behind the
\* entries the group has delivered.
C16_Witness ==
    /\ pc["outgoing_consumer_1/p1"] = "raised"
    /\ group_reply["action_consumer_1/p1"] = "BUSYGROUP"
    /\ pc["action_consumer_1/p1"] = "poll"
    /\ groups[ActStream].last_delivered > 0

(***************************************************************************)
(* C17.  A worker that has entered its polling loop never leaves it: an    *)
(* exception raised while an entry is read or processed (a failing xack    *)
(* or account lookup among them) leads to the back-off and from there to   *)
(* another group read, and so does an empty read.                          *)
(***************************************************************************)
InLoop ==
    {"poll", "lookup", "send", "log", "perform", "cache_get", "cache_set",
     "check_model", "cache_set_2", "notify", "ack", "sleep"}

C17_LoopNeverExits ==
    [][/\ \A w \in Workers :
             /\ pc[w] \in InLoop
                => (pc'[w] \in InLoop \/ (pc'[w] = "start" /\ group_reply'[w] = ""))
             /\ pc[w] = "sleep" => pc'[w] \in {"sleep", "poll", "start"}
       /\ \A s \in StreamNames :
             \A id \in Ids(s) :
                (outcome[s][id] # "uncaught" /\ outcome'[s][id] = "uncaught")
                => \E w \in Workers :
                      StreamOf(w) = s /\ message_id'[w] = id /\ pc'[w] = "sleep"]_vars

\* The dispatcher sent and logged an entry, the xack raised, and after the back-off
\* the worker is at its group read again.
C17_Witness ==
    \E id \in Ids(OutStream) :
        /\ LogsFor(id) # {}
        /\ outcome[OutStream][id] = "uncaught"
        /\ Pending(OutStream, id)
        /\ \E w \in OutWorkers : message_id[w] = id /\ pc[w] = "poll"

(***************************************************************************)
(* C18.  verify_signature(payload, signature) returns true exactly when no *)
(* secret is configured, or the signature is non-empty and equals the hex  *)
(* HMAC of the payload under the configured secret; with a secret          *)
(* configured, a missing signature and every signature that differs from   *)
(* the expected one yield false.                                           *)
(***************************************************************************)
C18_VerifyMatchesHmac ==
    \A i \in DOMAIN verifications :
        LET v == verifications[i]
            valid == \/ avito_webhook_secret = ""
                     \/ /\ v.signature.present
                        /\ v.signature.hex # <<>>
                        /\ v.signature.hex = hexdigest(avito_webhook_secret, v.payload)
        IN  v.result = Returns(valid)

(***************************************************************************)
(* C19.  Every projection the chat-action worker writes under the view key *)
(* of (account_id, chat_id), or hands to the subscriber notification for   *)
(* that key, is the projection of that chat with is_last_message_read =    *)
(* true: a projection obtained for an earlier entry of another chat is     *)
(* never written under or notified for this key.                           *)
(***************************************************************************)
C19_ProjectionBelongsToKey ==
    /\ \A i \in DOMAIN cache_ops :
          cache_ops[i].op = "set"
          => /\ VIEW_KEY_TPL(cache_ops[i].value.account_id, cache_ops[i].value.chat_id)
                  = cache_ops[i].key
             /\ cache_ops[i].value.is_last_message_read
    /\ \A i \in DOMAIN notifications :
          /\ VIEW_KEY_TPL(notifications[i].model.account_id, notifications[i].model.chat_id)
               = notifications[i].key
          /\ notifications[i].model.is_last_message_read

(***************************************************************************)
(* C20.  Every view key that exists after a write of the chat-action       *)
(* worker carries an expiry, also when the key expired between the         *)
(* worker's read and its write-back and when it was absent at the read.    *)
(***************************************************************************)
C20_CachedKeyHasExpiry ==
    \A key \in ViewKeys : view_cache[key].exists => view_cache[key].ttl > 0

(***************************************************************************)
(* C21.  Two chat-action workers processing mark_read for the same view    *)
(* key at the same time: under every interleaving of their cache reads and *)
(* writes the cached projection ends with is_last_message_read = true and  *)
(* equal to what the two give one after the other in either order; the     *)
(* worker never writes is_last_message_read = false, and mark_read applied *)
(* twice gives the same projection as applied once.                        *)
(***************************************************************************)
\* The projection an iteration that found m cached leaves in the cache.
MarkedOnce(m) == [m EXCEPT !.is_last_message_read = TRUE]

\* The entries that wrote under the key.
WritersOf(key) ==
    { id \in Ids(ActStream) :
        \E i \in SetsFor(id) : cache_ops[i].key = key }

FailedCallsFor(s, id) == CallsFor(s, id) \ OkCallsFor(s, id)

C22_FailedActionTouchesNothing ==
    \A id \in Ids(ActStream) :
        /\ FailedCallsFor(ActStream, id) # {}
           => /\ CacheOpsFor(id) = {}
              /\ RehydrationsFor(id) = {}
              /\ NotificationsFor(id) = {}
              /\ deliveries[ActStream][id] = 1
              /\ outcome[ActStream][id] = "action_failed"
              /\ \A w \in ActWorkers :
                    (message_id[w] = id /\ pc[w] = "poll") => Acked(ActStream, id)
        /\ (CacheOpsFor(id) # {} \/ RehydrationsFor(id) # {} \/ NotificationsFor(id) # {})
           => OkCallsFor(ActStream, id) # {}

\* The call failed for an entry whose projection is cached; the entry is
\* acknowledged, its worker reads on, the projection is still unread.
C22_Witness ==
    \E id \in Ids(ActStream) :
        /\ FailedCallsFor(ActStream, id) # {}
        /\ Acked(ActStream, id)
        /\ \E w \in ActWorkers : message_id[w] = id /\ pc[w] = "poll"
        /\ LET key == VIEW_KEY_TPL(1, streams[ActStream][id]["chat_id"])
           IN  /\ view_cache[key].exists
               /\ ~json_loads_model(view_cache[key].value).is_last_message_read

(***************************************************************************)
(* C23.  The MessageLog row committed for a dispatched OutgoingIntent has  *)
(* direction "out", is_autoreply = (action_type = auto_reply), and as      *)
(* trigger_name the intent's rule_name for auto_reply, its template_name   *)
(* for template_reply and null for every other action_type (an absent one  *)
(* counting as manual_reply); the send is an image send exactly when       *)
(* action_type is image_reply, a text send otherwise.                      *)
(***************************************************************************)
ActionTypeOf(data) ==
    IF "action_type" \in DOMAIN data THEN data["action_type"] ELSE "manual_reply"

FieldOrNull(data, key) == IF key \in DOMAIN data THEN JStr(data[key]) ELSE JNone

C23_LogRowMatchesIntent ==
    /\ \A i \in DOMAIN message_logs :
          LET data == streams[OutStream][message_logs[i].id]
              row == message_logs[i].row
          IN  /\ row.direction = "out"
              /\ row.chat_id = data["chat_id"]
              /\ row.is_autoreply = (ActionTypeOf(data) = "auto_reply")
              /\ ActionTypeOf(data) = "auto_reply"
                   => row.trigger_name = FieldOrNull(data, "rule_name")
              /\ ActionTypeOf(data) = "template_reply"
                   => row.trigger_name = FieldOrNull(data, "template_name")
              /\ ActionTypeOf(data) \notin {"auto_reply", "template_reply"}
                   => row.trigger_name = JNone
    /\ \A i \in DOMAIN api_calls :
          api_calls[i].stream = OutStream
          => LET data == streams[OutStream][api_calls[i].id]
             IN  api_calls[i].call = (IF ActionTypeOf(data) = "image_reply"
                                        THEN "send_image_message"
                                        ELSE "send_text_message")

\* An auto-reply and a template reply were dispatched and logged, each under its own
\* trigger.
C23_Witness ==
    /\ \E i \in DOMAIN message_logs :
          /\ message_logs[i].row.is_autoreply
          /\ message_logs[i].row.trigger_name = JStr("rule1")
    /\ \E i \in DOMAIN message_logs :
          /\ ~message_logs[i].row.is_autoreply
          /\ message_logs[i].row.trigger_name = JStr("tpl1")

(***************************************************************************)
(* C24.  With one consumer per group each worker handles one entry at a    *)
(* time, in the order of the stream: the external call, the log or         *)
(* projection write and the acknowledge of entry n (or the exception that  *)
(* reached the outer handler) are over before entry n+1 is read, so the    *)
(* external sends are made in the order in which the intents were          *)
(* appended.                                                               *)
(***************************************************************************)
\* The ids of a history are in stream order.
InOrder(history, s) ==
    \A i, j \in DOMAIN history :
        (i < j /\ history[i].stream = s /\ history[j].stream = s)
        => history[i].id < history[j].id

C24_Ordered ==
    /\ \A s \in StreamNames : InOrder(api_calls, s)
    /\ \A i, j \in DOMAIN message_logs : i < j => message_logs[i].id < message_logs[j].id
    /\ \A i, j \in DOMAIN cache_ops : i < j => cache_ops[i].id <= cache_ops[j].id
    /\ \A i, j \in DOMAIN notifications : i < j => notifications[i].id < notifications[j].id
    \* whatever the histories hold belongs to an entry no later than the one in hand
    /\ \A w \in Gathered :
          \A id \in Ids(StreamOf(w)) :
             deliveries[StreamOf(w)][id] > 0 => id <= groups[StreamOf(w)].last_delivered

C24_OneEntryAtATime ==
    [][/\ C24_Ordered /\ C24_Ordered'
       /\ \A w \in Gathered :
             LET s == StreamOf(w)
             IN  message_id'[w] \notin {message_id[w], 0}
                 => \* the read hands out the next entry of the stream, once
                    /\ message_id'[w] = groups[s].last_delivered + 1
                    /\ deliveries[s][message_id'[w]] = 0
                    \* and the entry before it is through
                    /\ message_id[w] # 0
                       => /\ message_id[w] < message_id'[w]
                          /\ \/ ~Pending(s, message_id[w])
                             \/ outcome[s][message_id[w]] = "uncaught"]_vars

\* The dispatcher sent and logged two intents, in the order of the stream.
C24_Witness ==
    /\ Len(streams[OutStream]) = 2
    /\ \A id \in Ids(OutStream) : OkCallsFor(OutStream, id) # {} /\ Acked(OutStream, id)
    /\ Len(api_calls) = 2 /\ api_calls[1].id = 1 /\ api_calls[2].id = 2
    /\ Len(message_logs) = 2

=============================================================================
